---- MODULE Spec2Model ----
(***************************************************************************)
(* LiteLight (src/lite-light.js): the lightbox viewer as a state machine.   *)
(* The module-level touchState / zoomState / preloadedImages, the viewer    *)
(* element, the listeners every opening click registers and the closures    *)
(* (sessions) those listeners belong to are the state; every DOM event the  *)
(* host can deliver is one action.                                          *)
(***************************************************************************)
EXTENDS Integers, Sequences, FiniteSets, TLC

(***************************************************************************)
(* Bounds of the model.                                                     *)
(***************************************************************************)
MaxImages == 3        \* IMG elements carrying the URL attribute in the page
MaxSessions == 2      \* opening clicks of a behaviour of Spec
MaxPending == 2       \* navigation is offered while fewer listeners wait for animationend
MaxSwipeEvents == 2   \* touchstart / touchmove events of a behaviour of Spec
MaxTouchEvents == 4   \* touchstart / touchmove events of a behaviour of SpecGesture
MaxContacts == 3      \* simultaneous contact points in SpecGesture
MaxPinchContacts == 2 \* simultaneous contact points in SpecReopen
MaxRequest == 7       \* |index| handed to navigateToImage in SpecWrap

(***************************************************************************)
(* Numbers.  JavaScript numbers are modelled as exact rationals <<n, d>>    *)
(* in lowest terms with d > 0.                                              *)
(***************************************************************************)
Abs(n) == IF n < 0 THEN -n ELSE n

RECURSIVE GCD(_, _)
GCD(a, b) == IF b = 0 THEN a ELSE GCD(b, a % b)

Rat(n, d) ==
  LET s == IF d < 0 THEN -1 ELSE 1
      g == GCD(Abs(n), Abs(d))
  IN  <<(s * n) \div g, (s * d) \div g>>

R(n) == <<n, 1>>
RNeg(a) == <<-a[1], a[2]>>
RAdd(a, b) ==
  LET g == GCD(a[2], b[2])
  IN  Rat(a[1] * (b[2] \div g) + b[1] * (a[2] \div g), (a[2] \div g) * b[2])
RSub(a, b) == RAdd(a, RNeg(b))
RMul(a, b) ==
  LET g == GCD(Abs(a[1]), b[2])
      h == GCD(Abs(b[1]), a[2])
  IN  Rat((a[1] \div g) * (b[1] \div h), (a[2] \div h) * (b[2] \div g))
RDiv(a, b) == RMul(a, IF b[1] < 0 THEN <<-b[2], -b[1]>> ELSE <<b[2], b[1]>>)
RLt(a, b) == a[1] * b[2] < b[1] * a[2]
RLe(a, b) == a[1] * b[2] <= b[1] * a[2]
RAbs(a) == <<Abs(a[1]), a[2]>>
RMax(a, b) == IF RLt(a, b) THEN b ELSE a
RMin(a, b) == IF RLt(b, a) THEN b ELSE a

\* the % operator of JavaScript: the result has the sign of the dividend
JSRem(a, b) == IF a >= 0 THEN a % b ELSE -((-a) % b)

(***************************************************************************)
(* Constants of the program.                                                *)
(***************************************************************************)
ZOOM_TOLERANCE == <<1, 100>>
MIN_ZOOM == 1
MAX_ZOOM == 5
DefaultSwipeThreshold == 50

FadeIn == "lite-light-fade-in"
FadeOut == "lite-light-fade-out"

(***************************************************************************)
(* Contact points (screenX, screenY) the host reports.                      *)
(***************************************************************************)
Points == {<<0, 0>>, <<101, 0>>, <<102, 0>>, <<0, 120>>}

Dist2(p, q) == (q[1] - p[1]) * (q[1] - p[1]) + (q[2] - p[2]) * (q[2] - p[2])

\* Math.sqrt(Dist2(p, q)) when it is a whole number, -1 otherwise
DistTable ==
  [p \in Points, q \in Points |->
     LET m == Abs(q[1] - p[1]) + Abs(q[2] - p[2])
     IN  IF \E r \in 0..m : r * r = Dist2(p, q)
         THEN CHOOSE r \in 0..m : r * r = Dist2(p, q)
         ELSE -1]

WholeDist(p, q) == DistTable[p, q]

\* the lists of n contacts the host reports: any two of them lie a whole
\* distance apart, so that Math.sqrt is exact on them
TouchListTable ==
  [n \in 1..MaxContacts |->
     {t \in [1..n -> Points] :
        \A i, j \in 1..n : i < j => WholeDist(t[i], t[j]) >= 0}]

TouchLists(n) == TouchListTable[n]

getTouchDistance(t) ==
  IF Len(t) < 2 THEN R(0) ELSE R(WholeDist(t[1], t[2]))

getTouchCenter(t) ==
  IF Len(t) < 2
  THEN [x |-> R(t[1][1]), y |-> R(t[1][2])]
  ELSE [x |-> Rat(t[1][1] + t[2][1], 2), y |-> Rat(t[1][2] + t[2][2], 2)]

isApproximatelyOne(value) == RLt(RAbs(RSub(value, R(1))), ZOOM_TOLERANCE)

\* mutant of clampScale: the upper limit is left out
clampScaleNoMax(requested) == RMax(R(MIN_ZOOM), requested)

\* Math.max(MIN_ZOOM, Math.min(MAX_ZOOM, requested))
clampScale(requested) == RMax(R(MIN_ZOOM), RMin(R(MAX_ZOOM), requested))

(***************************************************************************)
(* The page and the configuration.                                          *)
(*                                                                          *)
(* The document holds `page` IMG elements 1..page that carry the URL        *)
(* attribute (the attribute value of element i is URL i), and an element    *)
(* 0 that is not such an image.  All but the last IMG are of class          *)
(* "gallery".  The options leave imageSelector out (then it is              *)
(* img[data-lightbox] and matches every one of the IMG elements) or give a  *)
(* selector for the gallery images alone.  An option that may be left out   *)
(* is a sequence: empty when left out, else holding the value.              *)
(***************************************************************************)
GallerySelector == "img.gallery"

Options == [imageSelector : {<<>>, <<GallerySelector>>},
            swipeThreshold : {<<>>, <<101>>}]

\* const config = { ...defaults, ...options }
MakeConfig(options) ==
  [imageSelector |->
     IF options.imageSelector = <<>> THEN "img[data-lightbox]"
     ELSE options.imageSelector[1],
   swipeThreshold |->
     IF options.swipeThreshold = <<>> THEN DefaultSwipeThreshold
     ELSE options.swipeThreshold[1]]

\* document.querySelectorAll(config.imageSelector), in document order
querySelectorAll(selector, n) ==
  IF selector = GallerySelector
  THEN [i \in 1..(n - 1) |-> i]
  ELSE [i \in 1..n |-> i]

\* images.findIndex(img => img === e.target): 0-based, -1 when absent
findIndex(images, target) ==
  IF \E i \in 1..Len(images) : images[i] = target
  THEN (CHOOSE i \in 1..Len(images) : images[i] = target) - 1
  ELSE -1

(***************************************************************************)
(* State.                                                                   *)
(***************************************************************************)
VARIABLES
  config,                 \* the effective configuration of initLiteLight
  page,                   \* number of IMG elements carrying the URL attribute
  cssWinner,              \* the animation the stylesheet gives an image of both fade classes
  touchState,             \* module-level touchState
  zoomState,              \* module-level zoomState
  preloadedImages,        \* keys of the module-level preloadedImages
  lightbox,               \* the viewer: display, the image's src, classes and transform
  bodyLocked,             \* document.body is position: fixed
  sessions,               \* the closures of the opening clicks: images, currentIndex
  keydownListeners,       \* handleKeyboardNav of these sessions is on the document
  uiListeners,            \* sessions whose touch / button / background listeners are registered
  animationendListeners,  \* once-listeners of the viewer image, in registration order
  dispatch,               \* listeners of the animationend event being dispatched, still to run
  anim,                   \* the CSS animation of the viewer image: name, running
  touches,                \* active contact points on the viewer
  budget,                 \* what the host still delivers: opening clicks (opens),
                          \* touchstart / touchmove events (touch); and how many
                          \* contacts it lets touch at once (contacts)
  navCalls,               \* navigateToImage calls made by the last event
  gesture,                \* history of the touch sequence under way: two or more
                          \* contacts were present (multi), a one-contact move
                          \* panned the image (panned), a contact-start
                          \* recorded its start point (recorded)
  request                 \* the index of the last direct call of navigateToImage

vars == <<config, page, cssWinner, touchState, zoomState, preloadedImages,
          lightbox, bodyLocked, sessions, keydownListeners, uiListeners,
          animationendListeners, dispatch, anim, touches, budget, navCalls,
          gesture, request>>

\* what the handlers read and write, as one record
World ==
  [ts |-> touchState, zs |-> zoomState, pre |-> preloadedImages,
   lb |-> lightbox, body |-> bodyLocked, sess |-> sessions,
   kd |-> keydownListeners, ui |-> uiListeners,
   ae |-> animationendListeners, navCalls |-> 0]

(***************************************************************************)
(* Utility functions.                                                       *)
(***************************************************************************)
preloadImage(W, url) == [W EXCEPT !.pre = @ \cup {url}]

disableBodyScroll(W) == [W EXCEPT !.body = TRUE]

enableBodyScroll(W) == [W EXCEPT !.body = FALSE]

applyZoomTransform(W) ==
  [W EXCEPT !.lb.transform = [scale |-> W.zs.scale, x |-> W.zs.x, y |-> W.zs.y]]

\* mutant of resetZoom: the offset is kept
resetZoomScaleOnly(W) ==
  applyZoomTransform([W EXCEPT !.zs.scale = R(1)])

resetZoom(W) ==
  applyZoomTransform(
    [W EXCEPT !.zs.scale = R(1), !.zs.x = R(0), !.zs.y = R(0)])

(***************************************************************************)
(* The closures of one opening click; s is the session.                     *)
(***************************************************************************)
\* images[idx] is an element (else reading its attribute throws)
Defined(images, idx) == idx >= 0 /\ idx < Len(images)

PrevIdx(images, currentIdx) ==
  JSRem(currentIdx - 1 + Len(images), Len(images))

NextIdx(images, currentIdx) == JSRem(currentIdx + 1, Len(images))

\* preloadAdjacentImages returns (it does not throw)
AdjacentDefined(images, currentIdx) ==
  /\ Defined(images, PrevIdx(images, currentIdx))
  /\ Defined(images, NextIdx(images, currentIdx))

\* what preloadAdjacentImages does, up to the first read that throws
preloadAdjacentImages(W, s, currentIdx) ==
  LET images == W.sess[s].images
      prevIdx == PrevIdx(images, currentIdx)
      nextIdx == NextIdx(images, currentIdx)
  IN  IF ~Defined(images, prevIdx) THEN W
      ELSE IF ~Defined(images, nextIdx)
      THEN preloadImage(W, images[prevIdx + 1])
      ELSE preloadImage(preloadImage(W, images[prevIdx + 1]),
                        images[nextIdx + 1])

\* currentIndex = (index + images.length) % images.length
wrapIndex(index, length) == JSRem(index + length, length)

navigateToImage(W, s, index) ==
  LET images == W.sess[s].images
      cur == wrapIndex(index, Len(images))
      nextImageUrl == images[cur + 1]
      W1 == [W EXCEPT !.sess[s].currentIndex = cur, !.navCalls = @ + 1]
      W2 == preloadImage(W1, nextImageUrl)
  IN  IF cur < 0 THEN W1   \* images[cur] is undefined: getAttribute throws
      ELSE [W2 EXCEPT
              !.lb.classes = @ \cup {FadeOut},
              !.ae = Append(@, [kind |-> "handleFade", session |-> s,
                                url |-> nextImageUrl])]

\* the animationend listener navigateToImage registers
handleFade(W, l) ==
  LET W1 == resetZoom([W EXCEPT !.lb.src = l.url])
      W2 == [W1 EXCEPT !.lb.classes = (@ \ {FadeOut}) \cup {FadeIn}]
      cur == W2.sess[l.session].currentIndex
      W3 == preloadAdjacentImages(W2, l.session, cur)
  IN  IF ~AdjacentDefined(W2.sess[l.session].images, cur) THEN W3
      ELSE [W3 EXCEPT !.ae = Append(@, [kind |-> "clearFadeIn",
                                        session |-> l.session,
                                        url |-> l.url])]

\* the animationend listeners that remove the fade-in class
clearFadeIn(W, l) == [W EXCEPT !.lb.classes = @ \ {FadeIn}]

handleTouchStart(W, t) ==
  IF Len(t) = 1 THEN
    [W EXCEPT !.ts.startX = R(t[1][1]), !.ts.startY = R(t[1][2]),
              !.ts.lastCenterX = R(t[1][1]), !.ts.lastCenterY = R(t[1][2]),
              !.ts.isZooming = FALSE,
              !.zs.initialScale = W.zs.scale,
              !.zs.initialX = W.zs.x, !.zs.initialY = W.zs.y]
  ELSE IF Len(t) = 2 THEN
    [W EXCEPT !.ts.initialDistance = getTouchDistance(t),
              !.ts.lastCenterX = getTouchCenter(t).x,
              !.ts.lastCenterY = getTouchCenter(t).y,
              !.zs.initialScale = W.zs.scale,
              !.zs.initialX = W.zs.x, !.zs.initialY = W.zs.y,
              !.ts.isZooming = TRUE]
  ELSE W

\* mutant of panOffset: the move is not divided by the scale
panOffsetUnscaled(offset, delta, scale) == RAdd(offset, delta)

\* lines 258-259: zoomState.x += deltaX / zoomState.scale
panOffset(offset, delta, scale) == RAdd(offset, RDiv(delta, scale))

\* mutant of skippedPinch: a pinch without initial distance resets the zoom
skippedPinchResets(W) == resetZoom(W)

\* line 227 has no else: a pinch move without initial distance computes
\* nothing
skippedPinch(W) == W

\* mutant of isZoomedIn: an image at MIN_ZOOM is panned too
isZoomedInOrAtRest(W) == RLe(R(MIN_ZOOM), W.zs.scale)

\* line 252: zoomState.scale > MIN_ZOOM
isZoomedIn(W) == RLt(R(MIN_ZOOM), W.zs.scale)

\* mutant of pinchScale: the ratio is applied to the current scale
pinchScaleCompounding(W, currentDistance) ==
  clampScale(RMul(W.zs.scale, RDiv(currentDistance, W.ts.initialDistance)))

\* lines 228-229: scaleChange and the clamped scale of a pinch move
pinchScale(W, currentDistance) ==
  LET scaleChange == RDiv(currentDistance, W.ts.initialDistance)
  IN  clampScale(RMul(W.zs.initialScale, scaleChange))

handleTouchMove(W, t) ==
  IF Len(t) = 2 THEN
    LET currentDistance == getTouchDistance(t)
        center == getTouchCenter(t)
        scale == pinchScale(W, currentDistance)
        deltaX == RSub(center.x, W.ts.lastCenterX)
        deltaY == RSub(center.y, W.ts.lastCenterY)
        W1 == IF RLt(R(0), W.ts.initialDistance)
              THEN applyZoomTransform(
                     IF isApproximatelyOne(scale)
                     THEN [W EXCEPT !.zs.scale = scale,
                                    !.zs.x = R(0), !.zs.y = R(0)]
                     ELSE IF RLt(R(MIN_ZOOM), scale)
                     THEN [W EXCEPT
                             !.zs.scale = scale,
                             !.zs.x = RAdd(W.zs.initialX, RDiv(deltaX, scale)),
                             !.zs.y = RAdd(W.zs.initialY, RDiv(deltaY, scale))]
                     ELSE [W EXCEPT !.zs.scale = scale])
              ELSE skippedPinch(W)
    IN  [W1 EXCEPT !.ts.lastCenterX = center.x, !.ts.lastCenterY = center.y,
                   !.ts.isZooming = TRUE]
  ELSE IF Len(t) = 1 /\ isZoomedIn(W) THEN
    LET deltaX == RSub(R(t[1][1]), W.ts.lastCenterX)
        deltaY == RSub(R(t[1][2]), W.ts.lastCenterY)
        W1 == applyZoomTransform(
                [W EXCEPT !.zs.x = panOffset(@, deltaX, W.zs.scale),
                          !.zs.y = panOffset(@, deltaY, W.zs.scale)])
    IN  [W1 EXCEPT !.ts.lastCenterX = R(t[1][1]),
                   !.ts.lastCenterY = R(t[1][2]),
                   !.ts.isZooming = TRUE]
  ELSE W

\* mutant of endGesture: the initial pinch distance is kept
endGestureKeepsDistance(W) == [W EXCEPT !.ts.isZooming = FALSE]

\* lines 289-292: the reset when all touches are lifted
endGesture(W) ==
  [W EXCEPT !.ts.isZooming = FALSE, !.ts.initialDistance = R(0)]

\* the swipe test of handleTouchEnd
IsSwipe(swipeDistanceX, swipeDistanceY, threshold) ==
  /\ RLt(RAbs(swipeDistanceY), RAbs(swipeDistanceX))
  /\ RLt(R(threshold), RAbs(swipeDistanceX))

\* t: the contacts that remain, changed: the contacts released.
\* touchState.endX and endY are written and read here and nowhere else:
\* they are local to the handler in the model.
handleTouchEnd(W, s, t, changed, threshold) ==
  LET W1 == IF /\ Len(changed) = 1
               /\ ~W.ts.isZooming
               /\ Len(t) = 0
               /\ isApproximatelyOne(W.zs.scale)
            THEN LET endX == R(changed[1][1])
                     endY == R(changed[1][2])
                     swipeDistanceX == RSub(endX, W.ts.startX)
                     swipeDistanceY == RSub(endY, W.ts.startY)
                     cur == W.sess[s].currentIndex
                 IN  IF IsSwipe(swipeDistanceX, swipeDistanceY, threshold)
                     THEN navigateToImage(
                            W, s,
                            IF RLt(R(0), swipeDistanceX)
                            THEN cur - 1 ELSE cur + 1)
                     ELSE W
            ELSE W
  IN  IF Len(t) = 0 THEN endGesture(W1) ELSE W1

closeLightbox(W, s) ==
  LET W1 == enableBodyScroll([W EXCEPT !.lb.display = "none"])
  IN  [W1 EXCEPT !.kd = SelectSeq(@, LAMBDA h : h # s)]

handleKeyboardNav(W, s, key) ==
  IF key = "ArrowLeft" THEN navigateToImage(W, s, W.sess[s].currentIndex - 1)
  ELSE IF key = "ArrowRight" THEN navigateToImage(W, s, W.sess[s].currentIndex + 1)
  ELSE IF key = "Escape" THEN closeLightbox(W, s)
  ELSE W

\* the handler createNavigationHandler(direction) returns
navigationHandler(W, s, direction) ==
  navigateToImage(W, s, W.sess[s].currentIndex + direction)

(***************************************************************************)
(* The delegated click listener of the document (lines 136-367).  target   *)
(* is an IMG 1..page carrying the URL attribute, or the element 0.  When    *)
(* the target is not among the selected images, findIndex gives -1 and the  *)
(* read of images[-1].getAttribute throws after the viewer was displayed:   *)
(* the rest of the listener does not run.                                   *)
(***************************************************************************)
clickListener(W, cfg, n, target) ==
  IF target = 0 THEN W
  ELSE
    LET images == querySelectorAll(cfg.imageSelector, n)
        currentIndex == findIndex(images, target)
        s == Len(W.sess) + 1
        W1 == [W EXCEPT
                 !.sess = Append(@, [images |-> images,
                                     currentIndex |-> currentIndex]),
                 !.lb.display = "flex"]
    IN  IF currentIndex = -1 THEN W1
        ELSE
          LET url == images[currentIndex + 1]
              W2 == preloadAdjacentImages(preloadImage(W1, url), s, currentIndex)
              W3 == resetZoom([W2 EXCEPT !.lb.src = url])
              W4 == disableBodyScroll(
                      [W3 EXCEPT !.lb.classes = @ \cup {FadeIn}])
          IN  [W4 EXCEPT
                 !.ae = Append(@, [kind |-> "clearFadeIn", session |-> s,
                                   url |-> url]),
                 !.ui = Append(@, s),
                 !.kd = Append(@, s)]

(***************************************************************************)
(* The host.                                                                *)
(***************************************************************************)
\* an event delivered to the listener H of each session of ls, in
\* registration order
Deliver(H(_, _), W, ls) ==
  LET f[i \in 0..Len(ls)] == IF i = 0 THEN W ELSE H(f[i - 1], ls[i])
  IN  f[Len(ls)]

\* the animation the style of the viewer image asks for: none while the
\* viewer is not displayed, else the one of its fade class
ComputedAnimation(lb, winner) ==
  IF lb.display # "flex" \/ lb.classes = {} THEN "none"
  ELSE IF lb.classes = {FadeIn} THEN FadeIn
  ELSE IF lb.classes = {FadeOut} THEN FadeOut
  ELSE winner

\* the style is recomputed after a task: an animation starts when the
\* computed animation changed, and the one it replaces is cancelled
Restyle(a, lb, winner) ==
  LET name == ComputedAnimation(lb, winner)
  IN  IF name = a.name THEN a
      ELSE [name |-> name, running |-> name # "none"]

\* the state a handler leaves, when no dispatch is under way
Commit(W) ==
  /\ touchState' = W.ts
  /\ zoomState' = W.zs
  /\ preloadedImages' = W.pre
  /\ lightbox' = W.lb
  /\ bodyLocked' = W.body
  /\ sessions' = W.sess
  /\ keydownListeners' = W.kd
  /\ uiListeners' = W.ui
  /\ animationendListeners' = W.ae
  /\ navCalls' = W.navCalls
  /\ anim' = Restyle(anim, W.lb, cssWinner)
  /\ UNCHANGED <<config, page, cssWinner, dispatch>>

Idle == dispatch = <<>>

Displayed == lightbox.display = "flex"

InitProgram ==
  /\ touchState = [startX |-> R(0), startY |-> R(0),
                   initialDistance |-> R(0), isZooming |-> FALSE,
                   lastCenterX |-> R(0), lastCenterY |-> R(0)]
  /\ zoomState = [scale |-> R(1), x |-> R(0), y |-> R(0),
                  initialScale |-> R(1), initialX |-> R(0),
                  initialY |-> R(0)]
  /\ preloadedImages = {}
  /\ lightbox = [display |-> "", src |-> 0, classes |-> {},
                 transform |-> [scale |-> R(1), x |-> R(0), y |-> R(0)]]
  /\ bodyLocked = FALSE
  /\ sessions = <<>>
  /\ keydownListeners = <<>>
  /\ uiListeners = <<>>
  /\ animationendListeners = <<>>
  /\ dispatch = <<>>
  /\ anim = [name |-> "none", running |-> FALSE]
  /\ touches = <<>>
  /\ navCalls = 0
  /\ gesture = [multi |-> FALSE, panned |-> FALSE, recorded |-> FALSE]
  /\ request = <<>>

\* after initLiteLight(options) on a page of MaxImages images; the host
\* delivers one-contact touches
Init ==
  /\ InitProgram
  /\ config \in {MakeConfig(o) : o \in {p \in Options : p.swipeThreshold = <<>>}}
  /\ page = MaxImages
  /\ cssWinner \in {FadeIn, FadeOut}
  /\ budget = [opens |-> MaxSessions, touch |-> MaxSwipeEvents, contacts |-> 1]

(***************************************************************************)
(* Events.                                                                  *)
(***************************************************************************)
\* a click on a page element; the displayed viewer covers the page
ClickDocument ==
  /\ Idle /\ ~Displayed
  /\ budget.opens > 0
  /\ \E target \in 0..page :
       Commit(clickListener(World, config, page, target))
  /\ budget' = [budget EXCEPT !.opens = @ - 1]
  /\ UNCHANGED <<touches, gesture, request>>

KeyDown ==
  /\ Idle
  /\ \E key \in {"ArrowLeft", "ArrowRight", "Escape", "Enter"} :
       /\ key \in {"ArrowLeft", "ArrowRight"}
            => Len(animationendListeners) < MaxPending
       /\ Commit(Deliver(LAMBDA W, s : handleKeyboardNav(W, s, key),
                         World, keydownListeners))
  /\ UNCHANGED <<touches, budget, gesture, request>>

\* a click on the previous (-1) or next (1) button
ClickNavigation ==
  /\ Idle /\ Displayed
  /\ Len(animationendListeners) < MaxPending
  /\ \E direction \in {-1, 1} :
       Commit(Deliver(LAMBDA W, s : navigationHandler(W, s, direction),
                      World, uiListeners))
  /\ UNCHANGED <<touches, budget, gesture, request>>

\* a click on the close button: the first listener stops the others
ClickClose ==
  /\ Idle /\ Displayed
  /\ Commit(IF uiListeners = <<>> THEN World
            ELSE closeLightbox(World, uiListeners[1]))
  /\ UNCHANGED <<touches, budget, gesture, request>>

\* a click on the viewer outside its buttons: the first listener stops the
\* others and the event does not reach the document
ClickBackground ==
  /\ Idle /\ Displayed
  /\ Commit(IF uiListeners = <<>> THEN World
            ELSE closeLightbox(World, uiListeners[1]))
  /\ UNCHANGED <<touches, budget, gesture, request>>

TouchStart ==
  /\ Idle /\ Displayed
  /\ budget.touch > 0
  /\ \E n \in (Len(touches) + 1)..budget.contacts :
       \E t \in TouchLists(n) :
         /\ SubSeq(t, 1, Len(touches)) = touches
         /\ touches' = t
         /\ gesture' = [gesture EXCEPT
                          !.multi = @ \/ n >= 2,
                          !.recorded = @ \/ (n = 1 /\ uiListeners # <<>>)]
         /\ Commit(Deliver(LAMBDA W, s : handleTouchStart(W, t),
                           World, uiListeners))
  /\ budget' = [budget EXCEPT !.touch = @ - 1]
  /\ UNCHANGED request

TouchMove ==
  /\ Idle
  /\ touches # <<>>
  /\ budget.touch > 0
  /\ \E t \in TouchLists(Len(touches)) \ {touches} :
       /\ touches' = t
       /\ gesture' = [gesture EXCEPT
                        !.panned = \/ @
                                   \/ /\ Len(t) = 1
                                      /\ uiListeners # <<>>
                                      /\ RLt(R(MIN_ZOOM), zoomState.scale)]
       /\ Commit(Deliver(LAMBDA W, s : handleTouchMove(W, t),
                         World, uiListeners))
  /\ budget' = [budget EXCEPT !.touch = @ - 1]
  /\ UNCHANGED request

\* the contacts of `released` are lifted where they are
TouchEnd ==
  /\ Idle
  /\ touches # <<>>
  /\ \E released \in (SUBSET (1..Len(touches))) \ {{}} :
       LET keep(i) == i \notin released
           gone(i) == i \in released
           idx == [i \in 1..Len(touches) |-> i]
           t == [i \in 1..Len(SelectSeq(idx, keep)) |->
                   touches[SelectSeq(idx, keep)[i]]]
           changed == [i \in 1..Len(SelectSeq(idx, gone)) |->
                         touches[SelectSeq(idx, gone)[i]]]
       IN  /\ touches' = t
           /\ gesture' = IF t = <<>>
                         THEN [multi |-> FALSE, panned |-> FALSE,
                               recorded |-> FALSE]
                         ELSE gesture
           /\ Commit(Deliver(
                LAMBDA W, s : handleTouchEnd(W, s, t, changed,
                                             config.swipeThreshold),
                World, uiListeners))
  /\ UNCHANGED <<budget, request>>

\* the running animation of the viewer image ends: the listeners registered
\* now are the ones the event is dispatched to, and being once-listeners
\* they are removed
AnimationEnd ==
  /\ Idle
  /\ anim.running
  /\ anim' = [anim EXCEPT !.running = FALSE]
  /\ dispatch' = animationendListeners
  /\ animationendListeners' = <<>>
  /\ navCalls' = 0
  /\ UNCHANGED <<config, page, cssWinner, touchState, zoomState,
                 preloadedImages, lightbox, bodyLocked, sessions,
                 keydownListeners, uiListeners, touches, budget,
                 gesture, request>>

\* the next listener of the animationend event runs; the style is
\* recomputed after the last one
RunListener ==
  /\ dispatch # <<>>
  /\ LET l == Head(dispatch)
         W == IF l.kind = "handleFade" THEN handleFade(World, l)
              ELSE clearFadeIn(World, l)
     IN  /\ touchState' = W.ts
         /\ zoomState' = W.zs
         /\ preloadedImages' = W.pre
         /\ lightbox' = W.lb
         /\ bodyLocked' = W.body
         /\ sessions' = W.sess
         /\ keydownListeners' = W.kd
         /\ uiListeners' = W.ui
         /\ animationendListeners' = W.ae
         /\ navCalls' = 0
         /\ dispatch' = Tail(dispatch)
         /\ anim' = IF Tail(dispatch) = <<>>
                    THEN Restyle(anim, W.lb, cssWinner)
                    ELSE anim
  /\ UNCHANGED <<config, page, cssWinner, touches, budget, gesture, request>>

Next ==
  \/ ClickDocument
  \/ KeyDown
  \/ ClickNavigation
  \/ ClickClose
  \/ ClickBackground
  \/ TouchStart
  \/ TouchMove
  \/ TouchEnd
  \/ AnimationEnd
  \/ RunListener

Spec == Init /\ [][Next]_vars

(***************************************************************************)
(* The gestures: initLiteLight({swipeThreshold: 101}), one opening click,    *)
(* then touch events of up to MaxContacts contacts and the animation        *)
(* events of the navigations they trigger.                                  *)
(***************************************************************************)
InitGesture ==
  /\ InitProgram
  /\ config = MakeConfig([imageSelector |-> <<>>, swipeThreshold |-> <<101>>])
  /\ page = MaxImages
  /\ cssWinner = FadeOut
  /\ budget = [opens |-> 1, touch |-> MaxTouchEvents, contacts |-> MaxContacts]

NextGesture ==
  \/ ClickDocument
  \/ TouchStart
  \/ TouchMove
  \/ TouchEnd
  \/ AnimationEnd
  \/ RunListener

SpecGesture == InitGesture /\ [][NextGesture]_vars

(***************************************************************************)
(* navigateToImage as a function of its argument: a page of 1..MaxImages    *)
(* images, one opening click, then direct calls of the session's            *)
(* navigateToImage with any index of -MaxRequest..MaxRequest, and the       *)
(* animation events.                                                        *)
(***************************************************************************)
InitWrap ==
  /\ InitProgram
  /\ config = MakeConfig([imageSelector |-> <<>>, swipeThreshold |-> <<>>])
  /\ page \in 1..MaxImages
  /\ cssWinner = FadeOut
  /\ budget = [opens |-> 1, touch |-> 0, contacts |-> 0]

CallNavigate ==
  /\ Idle
  /\ sessions # <<>>
  /\ Len(animationendListeners) < MaxPending
  /\ \E index \in (-MaxRequest)..MaxRequest :
       /\ request' = <<index>>
       /\ Commit(navigateToImage(World, 1, index))
  /\ UNCHANGED <<touches, budget, gesture>>

NextWrap ==
  \/ ClickDocument
  \/ CallNavigate
  \/ AnimationEnd
  \/ RunListener

SpecWrap == InitWrap /\ [][NextWrap]_vars

(***************************************************************************)
(* The viewer reopened while zoomed: one configuration, two opening         *)
(* clicks, background clicks, the navigation buttons and pinches of         *)
(* MaxPinchContacts contacts.                                               *)
(***************************************************************************)
InitReopen ==
  /\ InitProgram
  /\ config = MakeConfig([imageSelector |-> <<>>, swipeThreshold |-> <<>>])
  /\ page = MaxImages
  /\ cssWinner = FadeOut
  /\ budget = [opens |-> MaxSessions, touch |-> MaxSwipeEvents,
               contacts |-> MaxPinchContacts]

NextReopen ==
  \/ ClickDocument
  \/ ClickBackground
  \/ ClickNavigation
  \/ TouchStart
  \/ TouchMove
  \/ TouchEnd
  \/ AnimationEnd
  \/ RunListener

SpecReopen == InitReopen /\ [][NextReopen]_vars

(***************************************************************************)
(* Every close is done with the Escape key: Spec without the clicks that    *)
(* close.                                                                   *)
(***************************************************************************)
NextEscape ==
  \/ ClickDocument
  \/ KeyDown
  \/ ClickNavigation
  \/ TouchStart
  \/ TouchMove
  \/ TouchEnd
  \/ AnimationEnd
  \/ RunListener

SpecEscape == Init /\ [][NextEscape]_vars

(***************************************************************************)
(* Claims.                                                                  *)
(***************************************************************************)
Count(s) == Len(sessions[s].images)

\* a contact-end event: only it shortens the list of contacts
ContactEnd == Len(touches') < Len(touches)

\* the next listener to run is the continuation of a navigation: the step
\* swaps the displayed source
SwapStep == dispatch # <<>> /\ Head(dispatch).kind = "handleFade"

\* the opening click ran to its end
OpenStep ==
  Len(sessions') > Len(sessions) /\ Len(uiListeners') > Len(uiListeners)

PendingFade(ls) == \E i \in 1..Len(ls) : ls[i].kind = "handleFade"

ZoomIsReset ==
  /\ zoomState.scale = R(1) /\ zoomState.x = R(0) /\ zoomState.y = R(0)
  /\ lightbox.transform = [scale |-> R(1), x |-> R(0), y |-> R(0)]

\* C1 (as claimed; SpecGesture): in every reachable state, if
\* |scale - 1| < 0.01 then offsetX = 0 and offsetY = 0.
RestScaleHasNoOffset ==
  isApproximatelyOne(zoomState.scale)
    => zoomState.x = R(0) /\ zoomState.y = R(0)

\* C2 (SpecGesture): in every reachable state MIN_ZOOM <= scale <= MAX_ZOOM.
ScaleWithinZoomLimits ==
  /\ RLe(R(MIN_ZOOM), zoomState.scale)
  /\ RLe(zoomState.scale, R(MAX_ZOOM))

\* C2 witness: a pinch whose ratio asked for more than MAX_ZOOM left the
\* scale at MAX_ZOOM.
PinchClampedAtMaxZoom ==
  /\ Len(touches) = 2
  /\ RLt(R(0), touchState.initialDistance)
  /\ RLt(R(MAX_ZOOM),
         RMul(zoomState.initialScale,
              RDiv(getTouchDistance(touches), touchState.initialDistance)))
  /\ zoomState.scale = R(MAX_ZOOM)

\* C3 (as claimed; Spec): the currentIndex of every session is in
\* [0, count), right after the opening click and after any navigation.
CurrentIndexInRange ==
  \A s \in 1..Len(sessions) :
    sessions[s].currentIndex >= 0 /\ sessions[s].currentIndex < Count(s)

SwipeDecision ==
  [][(/\ Len(touches) = 1 /\ touches' = <<>>
      /\ ~touchState.isZooming
      /\ isApproximatelyOne(zoomState.scale))
     => LET dX == touches[1][1] - touchState.startX[1]
            dY == touches[1][2] - touchState.startY[1]
            swipe == /\ gesture.recorded
                     /\ Abs(dX) > Abs(dY) /\ Abs(dX) > config.swipeThreshold
        IN  /\ navCalls' = IF swipe THEN Len(uiListeners) ELSE 0
            /\ \A s \in 1..Len(sessions) :
                 sessions'[s].currentIndex =
                   IF swipe /\ dX > 0
                   THEN (sessions[s].currentIndex - 1) % Count(s)
                   ELSE IF swipe
                   THEN (sessions[s].currentIndex + 1) % Count(s)
                   ELSE sessions[s].currentIndex]_vars

\* C6 (as claimed; SpecGesture): within one touch sequence, if two or more
\* contacts were ever present at once, or a one-contact move panned the
\* zoomed image, no contact-end event of the sequence triggers navigation.
NoNavigationAfterMultiTouch ==
  [][(ContactEnd /\ (gesture.multi \/ gesture.panned))
     => navCalls' = 0]_vars

\* C7 (as claimed; Spec): whenever the viewer is closed no keydown handler
\* of the viewer remains on the document, and at most one is registered
\* at any time.
KeydownListenerOnlyWhileOpen ==
  /\ lightbox.display = "none" => keydownListeners = <<>>
  /\ Len(keydownListeners) <= 1

\* C8 (as claimed; SpecEscape): when every close is done with Escape,
\* exactly one keyboard handler is registered while the viewer is
\* displayed and none after each Escape.
EscapeCyclesKeepOneHandler ==
  /\ Displayed => Len(keydownListeners) = 1
  /\ ~Displayed => Len(keydownListeners) = 0

\* C9 (SpecReopen): every step that sets the displayed source (the opening
\* click, the source swap of a navigation) leaves scale = 1 and
\* offset = (0, 0), and the transform of the image with them.
SourceChangeResetsZoom ==
  [][(SwapStep \/ OpenStep \/ lightbox'.src # lightbox.src)
     => ZoomIsReset']_vars

\* C9 witness: the zoom is at its reset values while a pinch that zoomed
\* the image in is still held: the source was set during the pinch.
ResetDuringPinch ==
  /\ Len(touches) = 2
  /\ RLt(R(0), touchState.initialDistance)
  /\ RLt(R(1),
         RMul(zoomState.initialScale,
              RDiv(getTouchDistance(touches), touchState.initialDistance)))
  /\ ZoomIsReset
  /\ uiListeners # <<>>

\* C10 (as claimed; SpecReopen): for every navigation trigger the source
\* does not change at trigger time, it is swapped on the completion of a
\* fade-out, and the fade-in of a navigation does not start while a
\* triggered navigation still waits for its swap.
FadeOrder ==
  [][/\ navCalls' > 0 => lightbox'.src = lightbox.src
     /\ SwapStep => anim.name = FadeOut
     /\ (SwapStep /\ FadeIn \notin lightbox.classes
                  /\ FadeIn \in lightbox'.classes)
          => ~PendingFade(dispatch') /\ ~PendingFade(animationendListeners')
    ]_vars

\* the fade-out continuations (handleFade) registered or being dispatched
FadesInFlight ==
  Len(SelectSeq(animationendListeners, LAMBDA l : l.kind = "handleFade"))
    + Len(SelectSeq(dispatch, LAMBDA l : l.kind = "handleFade"))

\* C11 (as claimed; Spec): at any time at most one fade-out continuation
\* is pending, also when navigation is triggered again before the previous
\* fade-out completion was delivered.
AtMostOneFadeInFlight == FadesInFlight <= 1

\* a touchmove event delivered to the handlers with two contacts
PinchMoveStep ==
  /\ Len(touches) = 2 /\ Len(touches') = 2 /\ touches' # touches
  /\ uiListeners # <<>>

\* C12 (SpecGesture): during a pinch of initial distance d0 > 0 and snapshot
\* initialScale s0, after every two-contact move reporting the distance d
\* the scale is max(1, min(5, s0 * d / d0)), s0 and d0 being left as they
\* were: the scale does not depend on the moves in between.
PinchScaleFromSnapshot ==
  [][(PinchMoveStep /\ RLt(R(0), touchState.initialDistance))
     => /\ zoomState'.scale =
             RMax(R(1), RMin(R(5),
               RDiv(RMul(zoomState.initialScale, getTouchDistance(touches')),
                    touchState.initialDistance)))
        /\ zoomState'.initialScale = zoomState.initialScale
        /\ touchState'.initialDistance = touchState.initialDistance]_vars

\* C12 witness: a pinch that started at a scale other than 1 has moved,
\* and the scale is strictly between the limits and not the snapshot.
PinchScaledFromZoomedSnapshot ==
  /\ Len(touches) = 2
  /\ RLt(R(0), touchState.initialDistance)
  /\ RLt(R(1), zoomState.initialScale)
  /\ RLt(R(1), zoomState.scale) /\ RLt(zoomState.scale, R(5))
  /\ zoomState.scale # zoomState.initialScale
  /\ zoomState.scale =
       RDiv(RMul(zoomState.initialScale, getTouchDistance(touches)),
            touchState.initialDistance)

\* a touchmove event delivered to the handlers with one contact
OneContactMoveStep ==
  /\ Len(touches) = 1 /\ Len(touches') = 1 /\ touches' # touches
  /\ uiListeners # <<>>

\* C13 (SpecGesture): a one-contact move while scale > MIN_ZOOM adds
\* (point - lastCenter) / scale to the current offset, leaves the scale
\* unchanged, sets lastCenter to the point and the zooming flag to true.
OneContactMovePans ==
  [][(OneContactMoveStep /\ RLt(R(MIN_ZOOM), zoomState.scale))
     => LET px == R(touches'[1][1])
            py == R(touches'[1][2])
        IN  /\ zoomState'.x =
                 RAdd(zoomState.x,
                      RDiv(RSub(px, touchState.lastCenterX), zoomState.scale))
            /\ zoomState'.y =
                 RAdd(zoomState.y,
                      RDiv(RSub(py, touchState.lastCenterY), zoomState.scale))
            /\ zoomState'.scale = zoomState.scale
            /\ touchState'.lastCenterX = px /\ touchState'.lastCenterY = py
            /\ touchState'.isZooming]_vars

\* C13 witness: a one-contact move has panned an image zoomed by a scale
\* that does not divide the move to a whole number.
PannedByFraction ==
  /\ Len(touches) = 1
  /\ gesture.panned
  /\ touchState.isZooming
  /\ touchState.lastCenterX = R(touches[1][1])
  /\ touchState.lastCenterY = R(touches[1][2])
  /\ RLt(R(MIN_ZOOM), zoomState.scale)
  /\ zoomState.x[2] # 1
  /\ lightbox.transform.x = zoomState.x

\* C14 (as claimed; SpecReopen): on a two-contact move with initial
\* distance > 0 whose new scale is not at rest and is > MIN_ZOOM, the
\* offset becomes initialOffset + (centroid - lastCenter) / newScale,
\* lastCenter being the centroid of the previous event; on every
\* two-contact move lastCenter is set to the current centroid.
PinchMovePansFromSnapshot ==
  [][PinchMoveStep
     => LET center == getTouchCenter(touches')
            newScale == zoomState'.scale
        IN  /\ touchState'.lastCenterX = center.x
            /\ touchState'.lastCenterY = center.y
            /\ (/\ RLt(R(0), touchState.initialDistance)
                /\ ~isApproximatelyOne(newScale)
                /\ RLt(R(MIN_ZOOM), newScale))
               => /\ zoomState'.x =
                       RAdd(zoomState.initialX,
                            RDiv(RSub(center.x, touchState.lastCenterX),
                                 newScale))
                  /\ zoomState'.y =
                       RAdd(zoomState.initialY,
                            RDiv(RSub(center.y, touchState.lastCenterY),
                                 newScale))]_vars

\* C15 (SpecGesture): a two-contact move made while the initial pinch
\* distance is 0 leaves scale, offsetX and offsetY, and the transform of
\* the image, unchanged.
ZeroDistancePinchKeepsZoom ==
  [][(PinchMoveStep /\ touchState.initialDistance = R(0))
     => /\ zoomState'.scale = zoomState.scale
        /\ zoomState'.x = zoomState.x
        /\ zoomState'.y = zoomState.y
        /\ lightbox'.transform = lightbox.transform]_vars

\* C15 witness: two contacts that started at one point of a zoomed image
\* have moved apart, and the image is still zoomed.
ZeroDistancePinchMoved ==
  /\ Len(touches) = 2
  /\ touches[1] # touches[2]
  /\ touchState.initialDistance = R(0)
  /\ touchState.isZooming
  /\ touchState.lastCenterX = getTouchCenter(touches).x
  /\ touchState.lastCenterY = getTouchCenter(touches).y
  /\ RLt(R(MIN_ZOOM), zoomState.scale)

\* C16 (SpecGesture): after every contact-end event that leaves 0 contacts
\* the zooming flag is false and the initial pinch distance is 0; a
\* contact-end that leaves one or more contacts changes neither.
ContactEndResetsGesture ==
  [][ContactEnd
     => IF touches' = <<>>
        THEN ~touchState'.isZooming /\ touchState'.initialDistance = R(0)
        ELSE /\ touchState'.isZooming = touchState.isZooming
             /\ touchState'.initialDistance = touchState.initialDistance
    ]_vars

\* C16 witness: all contacts are lifted after a pinch that zoomed the
\* image, and the gesture state is reset.
PinchLiftedAndReset ==
  /\ touches = <<>>
  /\ uiListeners # <<>>
  /\ RLt(R(MIN_ZOOM), zoomState.scale)
  /\ ~touchState.isZooming
  /\ touchState.initialDistance = R(0)

\* C17 (SpecGesture): a one-contact move while scale equals MIN_ZOOM is a
\* no-op: scale, offset, the initial snapshot, the start point, lastCenter,
\* the zooming flag and currentIndex are unchanged, and nothing navigates.
OneContactMoveAtRestIsNoOp ==
  [][(OneContactMoveStep /\ zoomState.scale = R(MIN_ZOOM))
     => /\ zoomState' = zoomState
        /\ touchState' = touchState
        /\ sessions' = sessions
        /\ lightbox' = lightbox
        /\ navCalls' = 0]_vars

\* C17 witness: the single contact of a gesture has moved away from its
\* recorded start point at MIN_ZOOM, and the start point is still the one
\* the contact-start recorded.
MovedAtRestKeepsStart ==
  /\ Len(touches) = 1
  /\ gesture.recorded /\ ~gesture.multi
  /\ zoomState.scale = R(MIN_ZOOM)
  /\ ~touchState.isZooming
  /\ <<touchState.startX, touchState.startY>>
       # <<R(touches[1][1]), R(touches[1][2])>>
  /\ touchState.lastCenterX = touchState.startX
  /\ touchState.lastCenterY = touchState.startY

\* the session opened last
LastSession == sessions[Len(sessions)]

\* C18 (as claimed; SpecReopen): whenever the viewer is open and no
\* fade-out continuation is pending, the displayed source is the URL of
\* images[currentIndex] of the session opened last.
SourceIsCurrentImage ==
  (/\ Displayed
   /\ sessions # <<>>
   /\ FadesInFlight = 0)
  => /\ Defined(LastSession.images, LastSession.currentIndex)
     /\ lightbox.src = LastSession.images[LastSession.currentIndex + 1]

\* the step hides the viewer
CloseStep == Displayed /\ lightbox'.display = "none"

\* C19 (as claimed; SpecReopen): the listeners on the viewer and its
\* buttons do not accumulate over open/close cycles: one click on previous
\* or next, or one swipe, causes no more than one navigateToImage call, and
\* a background click runs the closeLightbox of the session that is open,
\* which removes that session's keyboard handler.
OneListenerPerControl ==
  [][/\ navCalls' <= 1
     /\ CloseStep =>
          \A i \in 1..Len(keydownListeners') :
            keydownListeners'[i] # Len(sessions)]_vars

\* C20 (as claimed; SpecGesture): at scale > MIN_ZOOM every one-contact
\* move changes the offset by the moving contact's own displacement
\* divided by the scale, so that a run of such moves adds up to the
\* contact's displacement over the run; also for the first move after one
\* contact of a pinch was released, measured from where the remaining
\* contact was at the release.
PanFollowsContact ==
  [][(OneContactMoveStep /\ RLt(R(MIN_ZOOM), zoomState.scale))
     => /\ zoomState'.x =
             RAdd(zoomState.x,
                  RDiv(R(touches'[1][1] - touches[1][1]), zoomState.scale))
        /\ zoomState'.y =
             RAdd(zoomState.y,
                  RDiv(R(touches'[1][2] - touches[1][2]), zoomState.scale))
    ]_vars

====
